---- MODULE Spec2Model ----
(***************************************************************************)
(* A model of the weather Lambda: HandleRequest (validate, cache lookup,   *)
(* upstream fetch, DynamoDB save, cache population, response), the         *)
(* in-process go-cache instance behind GetCache/SetCache, the FetchWeather *)
(* client and SaveWeatherData.                                             *)
(*                                                                         *)
(* Strings that the code inspects character by character (the city query   *)
(* parameter and the keys derived from it) are sequences of one-character  *)
(* strings, so that "" is << >> and url.QueryEscape is computed.           *)
(* Time is counted in seconds since the process started and followed in    *)
(* steps of half the cache's default expiration.                           *)
(* Temperatures are in tenths of a degree (18.5 is 185).                   *)
(***************************************************************************)
EXTENDS Integers, Sequences, FiniteSets, TLC

\* ------------------------------------------------------------------ bounds
\* steps of the clock that are followed
MaxSteps == 5
\* handler invocations the runtime can hold
NumProcs == 2
\* runs of the cache janitor that are followed when the cache is taken alone
MaxSweeps == 2

Procs == 1..NumProcs

\* ------------------------------------------------- constants of the program
\* time.Minute, in seconds
Minute == 60
\* cache.New(5*time.Minute, ...): default expiration
DefaultExpiration == 5 * Minute
\* cache.New(..., 10*time.Minute): janitor interval
CleanupInterval == 10 * Minute

\* the clock advances by half a default expiration at a time
Step == DefaultExpiration \div 2

\* ------------------------------------------------------------ input values
\* city query values: "", " ", "LA"
CityInputs == { << >>, <<" ">>, <<"L", "A">> }

\* request.QueryStringParameters: a map that holds "city" or does not
QueryStringParameters ==
    { << >> } \cup { [city |-> c] : c \in CityInputs }

\* m["city"] on a Go map: the zero value "" when the key is absent
MapLookupCity(m) == IF "city" \in DOMAIN m THEN m.city ELSE << >>

\* data.values of the provider's payload
WeatherDataValues ==
    { [temperature |-> 185, humidity |-> 60],
      [temperature |-> 213, humidity |-> 45] }

\* location.name as the provider reports it
LocationName == <<"n">>

\* the bodies the provider can answer with: a realtime document or
\* something json.Decode rejects
ResponseBodies ==
    { [kind |-> "malformed"] } \cup
    { [kind |-> "json",
       data |-> [values |-> v],
       location |-> [name |-> LocationName]] : v \in WeatherDataValues }

StatusCodes == { 199, 200, 299, 300, 404, 500 }

\* what http.DefaultClient.Do can produce
HTTPOutcomes ==
    { [kind |-> "transport_error"] } \cup
    { [kind |-> "response", StatusCode |-> s, Body |-> b] :
        s \in StatusCodes, b \in ResponseBodies }

\* what the call into DynamoDB can produce
SaveOutcomes == { "ok", "PutItem_error", "session_panic" }

Builds == { "app", "part_003" }
\* the older copy of the handler, of FetchWeather and of SaveWeatherData
LegacyBuild == "legacy"

ApiKeys == { << >>, <<"k">> }

NoResponse == [StatusCode |-> 0, Body |-> << >>, err |-> "none"]
\* the zero value db.WeatherData{}
NoData == [City |-> << >>, Temperature |-> 0, Humidity |-> 0]
\* the zero value WeatherResponse{} that FetchWeather returns beside an error
ZeroWeatherResponse ==
    [kind |-> "json",
     data |-> [values |-> [temperature |-> 0, humidity |-> 0]],
     location |-> [name |-> << >>]]
NoPrev == [key |-> << >>, StatusCode |-> 0, fetches |-> 0, saves |-> 0,
           until |-> -1]
EmptyMap == [k \in {} |-> NoData]
\* no request has gone to the provider
NoBody == [kind |-> "none"]
NoExchange == [location |-> << >>, StatusCode |-> -1, Body |-> NoBody]

VARIABLES
    build,        \* which of the two handler sources is deployed
    env,          \* process environment: WEATHER_API_KEY
    now,          \* seconds since process start
    nextCleanup,  \* when the cache janitor's ticker fires next
    items,        \* the go-cache map: key -> [Object, Expiration]
    table,        \* the DynamoDB table: City -> item
    pc,           \* position of each invocation
    request,      \* QueryStringParameters of each invocation
    city,         \* local city / sanitizedCity
    dbData,       \* local dbData
    resp,         \* (response, error) returned
    trace,        \* calls made by the invocation, in order, with their results
    errorLines,   \* lines written with log.Error during the invocation
    httpCalls,    \* requests the invocation sent to the provider
    sent,         \* the last of them: location parameter, status and body answered
    readAt,       \* time of the invocation's GetCache
    lastSet,      \* per key: time of the last SetCache and the body returned with it
    saved,        \* records for which SaveWeatherData returned nil
    sets,         \* the (key, value) pairs SetCache has been called with
    prev          \* summary of the last invocation that returned

vars == << build, env, now, nextCleanup, items, table, pc, request, city,
           dbData, resp, trace, errorLines, httpCalls, sent, readAt, lastSet,
           saved, sets, prev >>

\* ------------------------------------------------------------ pure helpers

Unreserved == { "L", "A", "k" }

\* upper-case hex of the byte
PercentEncoding(ch) ==
    CASE ch = "&" -> <<"%", "2", "6">>
      [] ch = "/" -> <<"%", "2", "F">>
      [] OTHER    -> <<"%", "3", "F">>

RECURSIVE QueryEscape(_)
\* net/url QueryEscape: ' ' becomes '+', unreserved bytes stay, the rest %XX
QueryEscape(s) ==
    IF s = << >> THEN << >>
    ELSE LET ch == Head(s)
             e  == IF ch = " " THEN <<"+">>
                   ELSE IF ch \in Unreserved THEN <<ch>>
                   ELSE PercentEncoding(ch)
         IN e \o QueryEscape(Tail(s))

\* a sanitizer that also drops blanks
Sanitize_Trim(b, c) ==
    IF b = "part_003" THEN SelectSeq(QueryEscape(c), LAMBDA ch : ch # "+")
    ELSE SelectSeq(c, LAMBDA ch : ch # " ")

\* the value the handler validates and then uses as key
Sanitize(b, c) == IF b = "part_003" THEN QueryEscape(c) ELSE c

\* a handler without the validation
CityIsMissing_NoValidation(c) == FALSE

\* "Validate city": the (sanitized) city is the empty string
CityIsMissing(c) == c = << >>

\* json.Marshal of a db.WeatherData: the object's members in field order
json_Marshal(data) ==
    << "City", data.City, "Temperature", data.Temperature,
       "Humidity", data.Humidity >>

\* a buildResponse that returns an error beside its 200
buildResponse_WithError(data) ==
    [StatusCode |-> 200, Body |-> json_Marshal(data), err |-> "marshal"]

\* buildResponse: Marshal cannot fail on a string, a finite float and an int
buildResponse(data) ==
    [StatusCode |-> 200, Body |-> json_Marshal(data), err |-> "nil"]

\* a Get that treats the expiration instant itself as expired
CacheGet_ExclusiveBoundary(k) ==
    IF k \in DOMAIN items /\ ~(now >= items[k].Expiration)
    THEN [found |-> TRUE, data |-> items[k].Object]
    ELSE [found |-> FALSE, data |-> NoData]

\* c.Get: the item is present and the clock is not past its expiration
CacheGet(k) ==
    IF k \in DOMAIN items /\ ~(now > items[k].Expiration)
    THEN [found |-> TRUE, data |-> items[k].Object]
    ELSE [found |-> FALSE, data |-> NoData]

\* a GetCache on a cache of its own, which no SetCache has written
GetCache_Unshared(k) == [found |-> FALSE, data |-> NoData]

\* GetCache: c.Get on the one cache instance of the process
GetCache(k) == CacheGet(k)

\* a Get that gives the entry it finds a new expiration
CacheAfterGet_Touch(k) ==
    IF CacheGet(k).found
    THEN [x \in DOMAIN items |->
            IF x = k THEN [items[x] EXCEPT !.Expiration = now + DefaultExpiration]
            ELSE items[x]]
    ELSE items

\* the map after c.Get(k): Get only reads, found or not
CacheAfterGet(k) == items

\* a Set whose duration is zero
CacheSet_ZeroTTL(k, value) ==
    [x \in DOMAIN items \cup {k} |->
        IF x = k THEN [Object |-> value, Expiration |-> now]
        ELSE items[x]]

\* a Set that leaves an entry alone when the map already holds the key
CacheSet_KeepExisting(k, value) ==
    IF k \in DOMAIN items THEN items
    ELSE [x \in DOMAIN items \cup {k} |->
            IF x = k THEN [Object |-> value, Expiration |-> now + DefaultExpiration]
            ELSE items[x]]

\* c.Set(key, value, cache.DefaultExpiration): overwrite, expire d from now
CacheSet(k, value) ==
    [x \in DOMAIN items \cup {k} |->
        IF x = k THEN [Object |-> value, Expiration |-> now + DefaultExpiration]
        ELSE items[x]]

\* the map slot of k while c.Set is writing it: the new item is in part
\* written, the rest is what the slot held (zero in a new slot)
CacheSet_Partial(k, value) ==
    [x \in DOMAIN items \cup {k} |->
        IF x = k
        THEN [Object |-> [City |-> value.City,
                          Temperature |-> value.Temperature,
                          Humidity |-> IF k \in DOMAIN items
                                       THEN items[k].Object.Humidity ELSE 0],
              Expiration |-> now + DefaultExpiration]
        ELSE items[x]]

\* a SetCache that stores something else than the record it is given
SetCache_OtherValue(k, value) == CacheSet(k, NoData)

SetCache(k, value) == CacheSet(k, value)

\* FetchWeather on one outcome of the HTTP exchange
FetchWeather(apiKey, out) ==
    IF apiKey = << >>
    THEN [err |-> "config", http |-> FALSE, weatherResponse |-> ZeroWeatherResponse]
    ELSE IF out.kind = "transport_error"
    THEN [err |-> "transport", http |-> TRUE, weatherResponse |-> ZeroWeatherResponse]
    ELSE IF out.StatusCode < 200 \/ out.StatusCode >= 300
    THEN [err |-> "status", http |-> TRUE, weatherResponse |-> ZeroWeatherResponse]
    ELSE IF out.Body.kind # "json"
    THEN [err |-> "decode", http |-> TRUE, weatherResponse |-> ZeroWeatherResponse]
    ELSE [err |-> "nil", http |-> TRUE, weatherResponse |-> out.Body]

\* the older FetchWeather: no look at the API key nor at the status code
FetchWeather_legacy(apiKey, out) ==
    IF out.kind = "transport_error"
    THEN [err |-> "transport", http |-> TRUE, weatherResponse |-> ZeroWeatherResponse]
    ELSE IF out.Body.kind # "json"
    THEN [err |-> "decode", http |-> TRUE, weatherResponse |-> ZeroWeatherResponse]
    ELSE [err |-> "nil", http |-> TRUE, weatherResponse |-> out.Body]

\* weather.FetchWeather as linked into the build
FetchWeatherOf(b, apiKey, out) ==
    IF b = LegacyBuild THEN FetchWeather_legacy(apiKey, out)
    ELSE FetchWeather(apiKey, out)

\* the older handler has no "Validate city"
Validates(b) == b # LegacyBuild

\* a projection that takes the provider's name for the city
RecordKey_LocationName(b, c, weatherResponse) == weatherResponse.location.name

\* the key field of dbData: the (sanitized) city, location.name in the
\* older handler
RecordKey(b, c, weatherResponse) ==
    IF b = LegacyBuild THEN weatherResponse.location.name ELSE c

\* a PutItem conditioned on the key being absent
PutItem_IfAbsent(t, data) ==
    IF data.City \in DOMAIN t THEN t
    ELSE [x \in DOMAIN t \cup {data.City} |-> IF x = data.City THEN data ELSE t[x]]

\* PutItem: unconditional upsert keyed by City
PutItem(t, data) ==
    [x \in DOMAIN t \cup {data.City} |-> IF x = data.City THEN data ELSE t[x]]

\* a SaveWeatherData that logs PutItem's error and returns nil
SaveWeatherData_SwallowError(t, data, o) ==
    CASE o = "session_panic" -> [err |-> "panic", table |-> t]
      [] o = "PutItem_error" -> [err |-> "nil", table |-> t]
      [] OTHER               -> [err |-> "nil", table |-> PutItem(t, data)]

\* a SaveWeatherData whose failed PutItem has written the row
SaveWeatherData_WriteThenFail(t, data, o) ==
    CASE o = "session_panic" -> [err |-> "panic", table |-> t]
      [] o = "PutItem_error" -> [err |-> "PutItem", table |-> PutItem(t, data)]
      [] OTHER               -> [err |-> "nil", table |-> PutItem(t, data)]

\* SaveWeatherData on one outcome of the call into DynamoDB: a PutItem that
\* returns an error has not written the row
SaveWeatherData(t, data, o) ==
    CASE o = "session_panic" -> [err |-> "panic", table |-> t]
      [] o = "PutItem_error" -> [err |-> "PutItem", table |-> t]
      [] OTHER               -> [err |-> "nil", table |-> PutItem(t, data)]

\* an Error logger whose writer discards
log_Error_Discard(lines) == lines

\* log.Error: one line on the ERROR logger (stderr)
log_Error(lines) == lines + 1

\* the errors that FetchWeather and SaveWeatherData log with log.Error
\* themselves before they return them: transport and decode failures, and
\* PutItem's; the API-key and the status error are returned unlogged
CalleeLogs(err) == err \in { "transport", "decode", "PutItem" }

\* the Error channel after a callee has returned err and the handler has
\* logged it
LogFailure(lines, err) ==
    log_Error(IF CalleeLogs(err) THEN log_Error(lines) ELSE lines)

\* a handler that does not look at found
CacheHit_Never(r) == FALSE

\* "if cachedData, found := cache.GetCache(city); found"
CacheHit(r) == r.found

\* a handler that drops FetchWeather's error
FetchFailed_Never(r) == FALSE

\* "if err != nil" after FetchWeather
FetchFailed(r) == r.err # "nil"

\* a handler that drops SaveWeatherData's error
SaveFailed_Never(r) == FALSE

\* "if err := db.SaveWeatherData(dbData); err != nil"
SaveFailed(r) == r.err # "nil"

\* one call made by an invocation, and how it ended
Ev(op, res) == [op |-> op, res |-> res]

Calls(tr, op) == Cardinality({ i \in DOMAIN tr : tr[i].op = op })

Did(tr, op, res) == \E i \in DOMAIN tr : tr[i] = Ev(op, res)

Alive == \A q \in Procs : pc[q] # "panic"

\* -------------------------------------------------------------------- Init

Init ==
    /\ build \in Builds
    /\ env \in [WEATHER_API_KEY : ApiKeys]
    /\ now = 0
    /\ nextCleanup = CleanupInterval
    /\ items = EmptyMap
    /\ table = EmptyMap
    /\ pc = [p \in Procs |-> "idle"]
    /\ request = [p \in Procs |-> << >>]
    /\ city = [p \in Procs |-> << >>]
    /\ dbData = [p \in Procs |-> NoData]
    /\ resp = [p \in Procs |-> NoResponse]
    /\ trace = [p \in Procs |-> << >>]
    /\ errorLines = [p \in Procs |-> 0]
    /\ httpCalls = [p \in Procs |-> 0]
    /\ sent = [p \in Procs |-> NoExchange]
    /\ readAt = [p \in Procs |-> -1]
    /\ lastSet = EmptyMap
    /\ saved = {}
    /\ sets = {}
    /\ prev = NoPrev

\* --------------------------------------------------------------- HandleRequest

\* HandleRequest, from entry to the end of "Validate city"
Validate(p) ==
    /\ \E m \in QueryStringParameters :
        LET c == Sanitize(build, MapLookupCity(m)) IN
        /\ request' = [request EXCEPT ![p] = m]
        /\ city' = [city EXCEPT ![p] = c]
        /\ IF Validates(build) /\ CityIsMissing(c)
           THEN /\ errorLines' = [errorLines EXCEPT ![p] = log_Error(0)]
                /\ resp' = [resp EXCEPT ![p] =
                              [StatusCode |-> 400, Body |-> << >>, err |-> "nil"]]
                /\ trace' = [trace EXCEPT ![p] =
                              << Ev("validate", "err"), Ev("respond", "ok") >>]
                /\ pc' = [pc EXCEPT ![p] = "done"]
           ELSE /\ errorLines' = [errorLines EXCEPT ![p] = 0]
                /\ resp' = [resp EXCEPT ![p] = NoResponse]
                /\ trace' = [trace EXCEPT ![p] = << Ev("validate", "ok") >>]
                /\ pc' = [pc EXCEPT ![p] = "GetCache"]
    /\ UNCHANGED << build, env, now, nextCleanup, items, table, dbData,
                    httpCalls, sent, readAt, lastSet, saved, sets, prev >>

\* The runtime hands the process one invocation at a time, in its first free
\* slot.
Invoke(p) ==
    /\ Alive
    /\ \A q \in Procs : pc[q] = "idle" /\ p <= q
    /\ Validate(p)

\* the same, for an invocation that starts while others are under way
InvokeConcurrent(p) ==
    /\ Alive
    /\ pc[p] = "idle"
    /\ Validate(p)

\* "Check cache first": a hit answers from the cache
CheckCache(p) ==
    /\ Alive
    /\ pc[p] = "GetCache"
    /\ LET r == GetCache(city[p]) IN
        /\ items' = CacheAfterGet(city[p])
        /\ readAt' = [readAt EXCEPT ![p] = now]
        /\ IF CacheHit(r)
           THEN /\ resp' = [resp EXCEPT ![p] = buildResponse(r.data)]
                /\ trace' = [trace EXCEPT ![p] =
                              @ \o << Ev("GetCache", IF r.found THEN "hit" ELSE "miss"),
                                      Ev("respond", "ok") >>]
                /\ pc' = [pc EXCEPT ![p] = "done"]
           ELSE /\ resp' = resp
                /\ trace' = [trace EXCEPT ![p] =
                              @ \o << Ev("GetCache", IF r.found THEN "hit" ELSE "miss") >>]
                /\ pc' = [pc EXCEPT ![p] = "FetchWeather"]
    /\ UNCHANGED << build, env, now, nextCleanup, table, request, city,
                    dbData, errorLines, httpCalls, sent, lastSet, saved, sets,
                    prev >>

\* a handler that calls FetchWeather again when it fails
Fetch_Retry(p) ==
    /\ Alive
    /\ pc[p] = "FetchWeather"
    /\ \E out \in HTTPOutcomes :
        LET r == FetchWeatherOf(build, env.WEATHER_API_KEY, out)
            e == Ev("FetchWeather", IF r.err = "nil" THEN "ok" ELSE "err")
        IN
        /\ httpCalls' = [httpCalls EXCEPT ![p] = IF r.http THEN @ + 1 ELSE @]
        /\ trace' = [trace EXCEPT ![p] = @ \o << e >>]
        /\ IF FetchFailed(r)
           THEN UNCHANGED << pc, dbData >>
           ELSE /\ dbData' = [dbData EXCEPT ![p] =
                                [City |-> RecordKey(build, city[p], r.weatherResponse),
                                 Temperature |-> r.weatherResponse.data.values.temperature,
                                 Humidity |-> r.weatherResponse.data.values.humidity]]
                /\ pc' = [pc EXCEPT ![p] = "SaveWeatherData"]
    /\ UNCHANGED << build, env, now, nextCleanup, items, table, request, city,
                    resp, errorLines, sent, readAt, lastSet, saved, sets, prev >>

\* "Fetch weather data" and the projection into dbData
Fetch(p) ==
    /\ Alive
    /\ pc[p] = "FetchWeather"
    /\ \E out \in HTTPOutcomes :
        LET r == FetchWeatherOf(build, env.WEATHER_API_KEY, out)
            e == Ev("FetchWeather", IF r.err = "nil" THEN "ok" ELSE "err")
        IN
        /\ httpCalls' = [httpCalls EXCEPT ![p] = IF r.http THEN @ + 1 ELSE @]
        /\ sent' = [sent EXCEPT ![p] =
                      IF r.http
                      THEN [location |-> city[p],
                            StatusCode |-> IF out.kind = "response"
                                           THEN out.StatusCode ELSE 0,
                            Body |-> IF out.kind = "response"
                                     THEN out.Body ELSE NoBody]
                      ELSE @]
        /\ IF FetchFailed(r)
           THEN /\ errorLines' = [errorLines EXCEPT ![p] = LogFailure(@, r.err)]
                /\ resp' = [resp EXCEPT ![p] =
                              [StatusCode |-> 500, Body |-> << >>, err |-> r.err]]
                /\ trace' = [trace EXCEPT ![p] = @ \o << e, Ev("respond", "ok") >>]
                /\ pc' = [pc EXCEPT ![p] = "done"]
                /\ dbData' = dbData
           ELSE /\ dbData' = [dbData EXCEPT ![p] =
                                [City |-> RecordKey(build, city[p], r.weatherResponse),
                                 Temperature |-> r.weatherResponse.data.values.temperature,
                                 Humidity |-> r.weatherResponse.data.values.humidity]]
                /\ trace' = [trace EXCEPT ![p] = @ \o << e >>]
                /\ pc' = [pc EXCEPT ![p] = "SaveWeatherData"]
                /\ UNCHANGED << errorLines, resp >>
    /\ UNCHANGED << build, env, now, nextCleanup, items, table, request, city,
                    readAt, lastSet, saved, sets, prev >>

\* "Save to DynamoDB": SaveWeatherData and the handler's error return.
\* session.Must panics when the session cannot be created; the process ends.
Save(p) ==
    /\ Alive
    /\ pc[p] = "SaveWeatherData"
    /\ \E o \in SaveOutcomes :
        LET r == SaveWeatherData(table, dbData[p], o)
            e == Ev("SaveWeatherData", IF r.err = "nil" THEN "ok"
                                       ELSE IF r.err = "panic" THEN "panic" ELSE "err")
        IN
        /\ table' = r.table
        /\ saved' = IF o = "ok" THEN saved \cup { dbData[p] } ELSE saved
        /\ IF r.err = "panic"
           THEN /\ pc' = [pc EXCEPT ![p] = "panic"]
                /\ trace' = [trace EXCEPT ![p] = @ \o << e >>]
                /\ UNCHANGED << errorLines, resp >>
           ELSE IF SaveFailed(r)
           THEN /\ errorLines' = [errorLines EXCEPT ![p] = LogFailure(@, r.err)]
                /\ resp' = [resp EXCEPT ![p] =
                              [StatusCode |-> 500, Body |-> << >>, err |-> r.err]]
                /\ trace' = [trace EXCEPT ![p] = @ \o << e, Ev("respond", "ok") >>]
                /\ pc' = [pc EXCEPT ![p] = "done"]
           ELSE /\ trace' = [trace EXCEPT ![p] = @ \o << e >>]
                /\ pc' = [pc EXCEPT ![p] = "SetCache"]
                /\ UNCHANGED << errorLines, resp >>
    /\ UNCHANGED << build, env, now, nextCleanup, items, request, city, dbData,
                    httpCalls, sent, readAt, lastSet, sets, prev >>

\* "Cache the response" and the final buildResponse
CacheResponse(p) ==
    /\ Alive
    /\ pc[p] = "SetCache"
    /\ items' = SetCache(city[p], dbData[p])
    /\ sets' = sets \cup { [key |-> city[p], value |-> dbData[p]] }
    /\ resp' = [resp EXCEPT ![p] = buildResponse(dbData[p])]
    /\ lastSet' = [x \in DOMAIN lastSet \cup { city[p] } |->
                      IF x = city[p] THEN [at |-> now, Body |-> resp'[p].Body]
                      ELSE lastSet[x]]
    /\ trace' = [trace EXCEPT ![p] =
                   @ \o << Ev("SetCache", "ok"), Ev("respond", "ok") >>]
    /\ pc' = [pc EXCEPT ![p] = "done"]
    /\ UNCHANGED << build, env, now, nextCleanup, table, request, city, dbData,
                    errorLines, httpCalls, sent, readAt, saved, prev >>

\* the response goes back to the runtime; the invocation's locals are gone.
\* prev.until is the end of the TTL window of the entry the invocation stored
\* or was served from (of the entry it would have stored, when it failed).
Return(p) ==
    /\ Alive
    /\ pc[p] = "done"
    /\ prev' = [key |-> city[p],
                StatusCode |-> resp[p].StatusCode,
                fetches |-> httpCalls[p],
                saves |-> Calls(trace[p], "SaveWeatherData"),
                until |-> IF resp[p].StatusCode = 200 /\ city[p] \in DOMAIN lastSet
                          THEN lastSet[city[p]].at + DefaultExpiration
                          ELSE readAt[p] + DefaultExpiration]
    /\ pc' = [pc EXCEPT ![p] = "idle"]
    /\ request' = [request EXCEPT ![p] = << >>]
    /\ city' = [city EXCEPT ![p] = << >>]
    /\ dbData' = [dbData EXCEPT ![p] = NoData]
    /\ resp' = [resp EXCEPT ![p] = NoResponse]
    /\ trace' = [trace EXCEPT ![p] = << >>]
    /\ errorLines' = [errorLines EXCEPT ![p] = 0]
    /\ httpCalls' = [httpCalls EXCEPT ![p] = 0]
    /\ sent' = [sent EXCEPT ![p] = NoExchange]
    /\ readAt' = [readAt EXCEPT ![p] = -1]
    /\ UNCHANGED << build, env, now, nextCleanup, items, table, lastSet, saved,
                    sets >>

\* ------------------------------------------------------------------ the cache

\* a cache made without a janitor
DeleteExpired_Nothing(m) == m

\* go-cache DeleteExpired: drop every item past its expiration
DeleteExpired(m) ==
    [x \in { k \in DOMAIN m : ~(now > m[k].Expiration) } |-> m[x]]

\* the janitor goroutine: one run per tick of its ticker
Janitor ==
    /\ Alive
    /\ now >= nextCleanup
    /\ items' = DeleteExpired(items)
    /\ nextCleanup' = nextCleanup + CleanupInterval
    /\ UNCHANGED << build, env, now, table, pc, request, city, dbData, resp,
                    trace, errorLines, httpCalls, sent, readAt, lastSet, saved,
                    sets, prev >>

\* time passes
Tick ==
    /\ Alive
    /\ now + Step <= MaxSteps * Step
    /\ now' = now + Step
    /\ UNCHANGED << build, env, nextCleanup, items, table, pc, request, city,
                    dbData, resp, trace, errorLines, httpCalls, sent, readAt,
                    lastSet, saved, sets, prev >>

Next ==
    \/ \E p \in Procs : Invoke(p)
    \/ \E p \in Procs : CheckCache(p)
    \/ \E p \in Procs : Fetch(p)
    \/ \E p \in Procs : Save(p)
    \/ \E p \in Procs : CacheResponse(p)
    \/ \E p \in Procs : Return(p)
    \/ Janitor
    \/ Tick

Spec == Init /\ [][Next]_vars

\* the process built from the older copy of the sources
InitLegacy ==
    /\ build = LegacyBuild
    /\ env \in [WEATHER_API_KEY : ApiKeys]
    /\ now = 0
    /\ nextCleanup = CleanupInterval
    /\ items = EmptyMap
    /\ table = EmptyMap
    /\ pc = [p \in Procs |-> "idle"]
    /\ request = [p \in Procs |-> << >>]
    /\ city = [p \in Procs |-> << >>]
    /\ dbData = [p \in Procs |-> NoData]
    /\ resp = [p \in Procs |-> NoResponse]
    /\ trace = [p \in Procs |-> << >>]
    /\ errorLines = [p \in Procs |-> 0]
    /\ httpCalls = [p \in Procs |-> 0]
    /\ sent = [p \in Procs |-> NoExchange]
    /\ readAt = [p \in Procs |-> -1]
    /\ lastSet = EmptyMap
    /\ saved = {}
    /\ sets = {}
    /\ prev = NoPrev

\* the older build is followed within one instant: no entry expires
NextLegacy ==
    \/ \E p \in Procs : Invoke(p)
    \/ \E p \in Procs : CheckCache(p)
    \/ \E p \in Procs : Fetch(p)
    \/ \E p \in Procs : Save(p)
    \/ \E p \in Procs : CacheResponse(p)
    \/ \E p \in Procs : Return(p)

SpecLegacy == InitLegacy /\ [][NextLegacy]_vars

\* ------------------------------------------------- overlapping invocations

\* a cache without its mutex
MuFree_NoMutex == TRUE

\* c.mu of the go-cache instance: no invocation is between Lock and Unlock
MuFree == \A q \in Procs : pc[q] # "SetCache_locked"

\* GetCache under c.mu.RLock
CheckCacheConcurrent(p) ==
    /\ MuFree
    /\ CheckCache(p)

\* SetCache from c.mu.Lock to the middle of the write of the map slot
SetCacheLock(p) ==
    /\ Alive
    /\ pc[p] = "SetCache"
    /\ MuFree
    /\ items' = CacheSet_Partial(city[p], dbData[p])
    /\ sets' = sets \cup { [key |-> city[p], value |-> dbData[p]] }
    /\ pc' = [pc EXCEPT ![p] = "SetCache_locked"]
    /\ UNCHANGED << build, env, now, nextCleanup, table, request, city, dbData,
                    resp, trace, errorLines, httpCalls, sent, readAt, lastSet,
                    saved, prev >>

\* the rest of the write, c.mu.Unlock and the final buildResponse
SetCacheUnlock(p) ==
    /\ Alive
    /\ pc[p] = "SetCache_locked"
    /\ items' = SetCache(city[p], dbData[p])
    /\ resp' = [resp EXCEPT ![p] = buildResponse(dbData[p])]
    /\ lastSet' = [x \in DOMAIN lastSet \cup { city[p] } |->
                      IF x = city[p] THEN [at |-> now, Body |-> resp'[p].Body]
                      ELSE lastSet[x]]
    /\ trace' = [trace EXCEPT ![p] =
                   @ \o << Ev("SetCache", "ok"), Ev("respond", "ok") >>]
    /\ pc' = [pc EXCEPT ![p] = "done"]
    /\ UNCHANGED << build, env, now, nextCleanup, table, request, city, dbData,
                    errorLines, httpCalls, sent, readAt, saved, sets, prev >>

\* one invocation per slot, all overlapping in one process, followed within
\* one instant and up to their responses
NextConcurrent ==
    \/ \E p \in Procs : InvokeConcurrent(p)
    \/ \E p \in Procs : CheckCacheConcurrent(p)
    \/ \E p \in Procs : Fetch(p)
    \/ \E p \in Procs : Save(p)
    \/ \E p \in Procs : SetCacheLock(p)
    \/ \E p \in Procs : SetCacheUnlock(p)

SpecConcurrent == Init /\ [][NextConcurrent]_vars

\* time passes while invocations overlap; only GetCache and SetCache read
\* the clock and expirations are relative to the SetCache that stored them,
\* so the clock is followed from the first completed SetCache until an entry
\* stored then has expired, and while an invocation is about to read
TickConcurrent ==
    /\ Alive
    /\ DOMAIN lastSet # {}
    /\ \E p \in Procs : pc[p] = "GetCache"
    /\ now + Step <= DefaultExpiration + Step
    /\ now' = now + Step
    /\ UNCHANGED << build, env, nextCleanup, items, table, pc, request, city,
                    dbData, resp, trace, errorLines, httpCalls, sent, readAt,
                    lastSet, saved, sets, prev >>

NextConcurrentTimed ==
    \/ NextConcurrent
    \/ TickConcurrent

SpecConcurrentTimed == Init /\ [][NextConcurrentTimed]_vars

\* --------------------------------------------------------- the cache alone

\* the keys and values HandleRequest can call SetCache with
SetCacheArgs ==
    { [key |-> Sanitize(build, c),
       value |-> [City |-> Sanitize(build, c),
                  Temperature |-> v.temperature,
                  Humidity |-> v.humidity]] :
        c \in CityInputs \ { << >> }, v \in WeatherDataValues }

\* a call of SetCache, whoever makes it
SetCacheCall ==
    /\ \E a \in SetCacheArgs :
         /\ items' = SetCache(a.key, a.value)
         /\ sets' = sets \cup { a }
         /\ lastSet' = [x \in DOMAIN lastSet \cup { a.key } |->
                           IF x = a.key
                           THEN [at |-> now, Body |-> json_Marshal(a.value)]
                           ELSE lastSet[x]]
    /\ UNCHANGED << build, env, now, nextCleanup, table, pc, request, city,
                    dbData, resp, trace, errorLines, httpCalls, sent, readAt,
                    saved, prev >>

\* time passes; the janitor's ticker fires when its interval is over, so the
\* clock does not pass nextCleanup before the janitor has run
TickCache ==
    /\ now < nextCleanup
    /\ now + Step <= MaxSweeps * CleanupInterval
    /\ now' = now + Step
    /\ UNCHANGED << build, env, nextCleanup, items, table, pc, request, city,
                    dbData, resp, trace, errorLines, httpCalls, sent, readAt,
                    lastSet, saved, sets, prev >>

NextCache ==
    \/ SetCacheCall
    \/ Janitor
    \/ TickCache

\* the clock and the janitor goroutine keep running whatever the callers do
SpecCache ==
    /\ Init
    /\ [][NextCache]_vars
    /\ WF_vars(TickCache)
    /\ WF_vars(Janitor)

\* ===================================================================== claims

Done(p) == pc[p] = "done"

\* the city the request carries ("" when the parameter is absent)
RequestCity(p) == MapLookupCity(request[p])

IsBlank(c) == \A i \in DOMAIN c : c[i] = " "

\* the invocation made none of the calls behind the validation
NoCalls(tr) ==
    /\ Calls(tr, "GetCache") = 0
    /\ Calls(tr, "FetchWeather") = 0
    /\ Calls(tr, "SaveWeatherData") = 0
    /\ Calls(tr, "SetCache") = 0

\* C1: a request whose city parameter is absent or "" is answered in one step
\* with status 400 and an empty body, after no cache lookup, cache Set, fetch
\* or Save, and that step leaves the cache and the table as they were.
C1_MissingCity ==
    [][\A p \in Procs :
         (pc[p] = "idle" /\ pc'[p] # "idle" /\ MapLookupCity(request'[p]) = << >>)
         => /\ pc'[p] = "done"
            /\ resp'[p].StatusCode = 400
            /\ resp'[p].Body = << >>
            /\ NoCalls(trace'[p])
            /\ items' = items
            /\ table' = table]_vars

\* a 400 for a request without the parameter, with the cache and the table
\* populated
C1_Witness ==
    \E p \in Procs :
        /\ Done(p)
        /\ request[p] = << >>
        /\ resp[p].StatusCode = 400
        /\ DOMAIN items # {}
        /\ DOMAIN table # {}

\* C2: every request whose city is empty or only blanks is answered with 400
\* and calls neither FetchWeather nor SaveWeatherData nor SetCache.
C2_BlankCity ==
    \A p \in Procs :
        (Done(p) /\ IsBlank(RequestCity(p)))
        => /\ resp[p].StatusCode = 400
           /\ Calls(trace[p], "FetchWeather") = 0
           /\ Calls(trace[p], "SaveWeatherData") = 0
           /\ Calls(trace[p], "SetCache") = 0

\* C3: an invocation whose cache lookup is a hit returns 200 with the body
\* of the response that populated the cache, which is the serialization of
\* the cached record, and calls neither FetchWeather nor SaveWeatherData nor
\* SetCache.
C3_CacheHit ==
    /\ \A p \in Procs :
         Did(trace[p], "GetCache", "hit")
         => /\ Done(p)
            /\ resp[p].StatusCode = 200
            /\ city[p] \in DOMAIN lastSet
            /\ resp[p].Body = lastSet[city[p]].Body
            /\ Calls(trace[p], "FetchWeather") = 0
            /\ Calls(trace[p], "SaveWeatherData") = 0
            /\ Calls(trace[p], "SetCache") = 0
    /\ \A k \in DOMAIN items :
         /\ k \in DOMAIN lastSet
         /\ lastSet[k].Body = json_Marshal(items[k].Object)

\* a hit answered at a later instant than the Set
C3_Witness ==
    \E p \in Procs :
        /\ Done(p)
        /\ Did(trace[p], "GetCache", "hit")
        /\ resp[p].StatusCode = 200
        /\ readAt[p] > lastSet[city[p]].at

\* the second of two consecutive calls for one city has read the cache
\* inside the TTL window of the first
SecondInWindow(p) ==
    /\ pc[p] # "idle"
    /\ readAt[p] >= 0
    /\ city[p] = prev.key
    /\ readAt[p] < prev.until

\* the two calls sent at most one request to the provider and made at most
\* one Save, and the second was a hit
AtMostOnce(p) ==
    /\ Did(trace[p], "GetCache", "hit")
    /\ prev.fetches + httpCalls[p] <= 1
    /\ prev.saves + Calls(trace[p], "SaveWeatherData") <= 1

\* C4 as stated: two consecutive calls for one non-empty city within the
\* TTL window make at most one fetch and one Save together, the second
\* being served from the cache (read here for cities that are not blank).
C4_TwoCalls ==
    \A p \in Procs :
        (Done(p) /\ SecondInWindow(p) /\ ~IsBlank(RequestCity(p)))
        => AtMostOnce(p)

\* C4 amended: the same, when the first call returned 200.
C4_TwoCallsAfterSuccess ==
    \A p \in Procs :
        (SecondInWindow(p) /\ prev.StatusCode = 200) => AtMostOnce(p)

\* a hit at a later instant inside the window of a first call that fetched
C4_Witness ==
    \E p \in Procs :
        /\ Done(p)
        /\ SecondInWindow(p)
        /\ prev.StatusCode = 200
        /\ prev.fetches = 1
        /\ prev.saves = 1
        /\ readAt[p] + DefaultExpiration > prev.until
        /\ Did(trace[p], "GetCache", "hit")

\* C5: when FetchWeather returns an error the invocation returns 500 without
\* calling SaveWeatherData or SetCache, and a lookup of its key still misses.
C5_FetchError ==
    \A p \in Procs :
        Did(trace[p], "FetchWeather", "err")
        => /\ Done(p)
           /\ resp[p].StatusCode = 500
           /\ Calls(trace[p], "SaveWeatherData") = 0
           /\ Calls(trace[p], "SetCache") = 0
           /\ ~GetCache(city[p]).found

\* a failed fetch with the API key set, for a key that was cached before
C5_Witness ==
    \E p \in Procs :
        /\ Done(p)
        /\ Did(trace[p], "FetchWeather", "err")
        /\ env.WEATHER_API_KEY # << >>
        /\ city[p] \in DOMAIN items
        /\ resp[p].StatusCode = 500

\* C6: when the fetch succeeds and SaveWeatherData returns an error the
\* invocation returns 500 without calling SetCache, and a lookup of its key
\* still misses.
C6_SaveError ==
    \A p \in Procs :
        Did(trace[p], "SaveWeatherData", "err")
        => /\ Did(trace[p], "FetchWeather", "ok")
           /\ Done(p)
           /\ resp[p].StatusCode = 500
           /\ Calls(trace[p], "SetCache") = 0
           /\ ~GetCache(city[p]).found

\* a failed Save for a key other than one that is cached
C6_Witness ==
    \E p \in Procs :
        /\ Done(p)
        /\ Did(trace[p], "SaveWeatherData", "err")
        /\ resp[p].StatusCode = 500
        /\ DOMAIN items # {}

\* C7: every record in the cache is one that DynamoDB has accepted.
C7_CachedIsSaved ==
    \A k \in DOMAIN items : items[k].Object \in saved

\* two keys cached
C7_Witness ==
    Cardinality(DOMAIN items) = 2

\* C8: a response has status 200, 400 or 500: 200 exactly after a hit or
\* after a successful fetch and a successful Save, 400 exactly when the
\* request's city is missing or empty, 500 when the fetch or the Save failed.
C8_StatusCodes ==
    \A p \in Procs :
        Done(p)
        => /\ resp[p].StatusCode \in { 200, 400, 500 }
           /\ resp[p].StatusCode = 200
                <=> \/ Did(trace[p], "GetCache", "hit")
                    \/ /\ Did(trace[p], "FetchWeather", "ok")
                       /\ Did(trace[p], "SaveWeatherData", "ok")
           /\ resp[p].StatusCode = 400 <=> RequestCity(p) = << >>
           /\ resp[p].StatusCode = 500
                <=> \/ Did(trace[p], "FetchWeather", "err")
                    \/ Did(trace[p], "SaveWeatherData", "err")

\* a 500 from a provider status outside 2xx, for a blank city
C8_Witness ==
    \E p \in Procs :
        /\ Done(p)
        /\ resp[p].StatusCode = 500
        /\ resp[p].err = "status"
        /\ RequestCity(p) = <<" ">>

Rank(op) ==
    CASE op = "validate"        -> 1
      [] op = "GetCache"        -> 2
      [] op = "FetchWeather"    -> 3
      [] op = "SaveWeatherData" -> 4
      [] op = "SetCache"        -> 5
      [] op = "respond"         -> 6

\* call j of the trace comes after a call op that ended res
After(tr, j, op, res) == \E i \in 1..(j - 1) : tr[i] = Ev(op, res)

\* C9: the calls of one invocation come in the order validate, GetCache,
\* FetchWeather, SaveWeatherData, SetCache, respond, each at most once: the
\* lookup after a passed validation, the fetch after a miss, the Save after
\* a successful fetch, the Set after a successful Save, the response last.
C9_Order ==
    \A p \in Procs :
        LET tr == trace[p] IN
        /\ \A i, j \in DOMAIN tr : i < j => Rank(tr[i].op) < Rank(tr[j].op)
        /\ \A j \in DOMAIN tr :
             /\ tr[j].op = "validate" => j = 1
             /\ tr[j].op = "GetCache" => After(tr, j, "validate", "ok")
             /\ tr[j].op = "FetchWeather" => After(tr, j, "GetCache", "miss")
             /\ tr[j].op = "SaveWeatherData" => After(tr, j, "FetchWeather", "ok")
             /\ tr[j].op = "SetCache" => After(tr, j, "SaveWeatherData", "ok")
             /\ tr[j].op = "respond" => (j = Len(tr) /\ Done(p))
        /\ Done(p) => (tr # << >> /\ tr[Len(tr)].op = "respond")

\* an invocation that made all six calls
C9_Witness ==
    \E p \in Procs : Done(p) /\ Len(trace[p]) = 6

\* the invocation has looked up a key that was Set before, and has not Set
\* it itself since
LookedUp(p) ==
    /\ readAt[p] >= 0
    /\ city[p] \in DOMAIN lastSet
    /\ Calls(trace[p], "SetCache") = 0

\* C10 as stated: an entry Set at T and not Set again is found by every
\* lookup in [T, T + 5 min) and by no lookup at or after T + 5 min.
C10_TTL ==
    \A p \in Procs :
        LookedUp(p)
        => (Did(trace[p], "GetCache", "hit")
              <=> readAt[p] < lastSet[city[p]].at + DefaultExpiration)

\* C10 amended: such an entry is found by every lookup in [T, T + 5 min],
\* the expiration instant included, and by no lookup after T + 5 min, swept
\* or not.
C10_TTLInclusive ==
    \A p \in Procs :
        LookedUp(p)
        => (Did(trace[p], "GetCache", "hit")
              <=> readAt[p] <= lastSet[city[p]].at + DefaultExpiration)

\* a miss on an entry that is past its expiration and still in the map
C10_Witness ==
    \E p \in Procs :
        /\ LookedUp(p)
        /\ Did(trace[p], "GetCache", "miss")
        /\ city[p] \in DOMAIN items
        /\ pc[p] = "FetchWeather"

SaveSucceeds(p) == pc[p] = "SaveWeatherData" /\ pc'[p] = "SetCache"

\* C12: a successful SaveWeatherData puts its record in the row of the
\* record's city, replacing whatever row was there, and leaves the rows of
\* all other cities as they were; no other step changes the table.  The
\* table therefore holds one row per city, that of the latest successful Save.
C12_Upsert ==
    [][
        /\ \A p \in Procs :
              SaveSucceeds(p)
              => /\ DOMAIN table' = DOMAIN table \cup { dbData[p].City }
                 /\ table'[dbData[p].City] = dbData[p]
                 /\ \A x \in DOMAIN table \ { dbData[p].City } :
                       table'[x] = table[x]
        /\ (\A p \in Procs : ~SaveSucceeds(p)) => table' = table
        /\ \A x \in DOMAIN table' : table'[x].City = x
    ]_vars

\* a Save that has replaced the row of its city by another record, beside
\* the row of another city
C12_Witness ==
    \E p \in Procs :
        /\ pc[p] = "SetCache"
        /\ table[dbData[p].City] = dbData[p]
        /\ \E d \in saved : d.City = dbData[p].City /\ d # dbData[p]
        /\ Cardinality(DOMAIN table) = 2

\* C13: with WEATHER_API_KEY unset or empty, FetchWeather sends no request
\* to the provider and returns a configuration error, and the invocation
\* returns 500 having called neither SaveWeatherData nor SetCache.
C13_NoApiKey ==
    \A p \in Procs :
        (env.WEATHER_API_KEY = << >> /\ Calls(trace[p], "FetchWeather") = 1)
        => /\ httpCalls[p] = 0
           /\ sent[p] = NoExchange
           /\ Did(trace[p], "FetchWeather", "err")
           /\ Done(p)
           /\ resp[p].StatusCode = 500
           /\ resp[p].err = "config"
           /\ Calls(trace[p], "SaveWeatherData") = 0
           /\ Calls(trace[p], "SetCache") = 0

\* the provider answered the invocation's request with a status outside 2xx
Non2xx(p) ==
    /\ sent[p].StatusCode > 0
    /\ (sent[p].StatusCode < 200 \/ sent[p].StatusCode >= 300)

\* C14: when the provider answers with a status outside [200,299],
\* FetchWeather returns an error for the status, and the invocation returns
\* 500 having called neither SaveWeatherData nor SetCache.
C14_Non2xx ==
    \A p \in Procs :
        Non2xx(p)
        => /\ Did(trace[p], "FetchWeather", "err")
           /\ Done(p)
           /\ resp[p].StatusCode = 500
           /\ resp[p].err = "status"
           /\ Calls(trace[p], "SaveWeatherData") = 0
           /\ Calls(trace[p], "SetCache") = 0

\* the value a hit handed to the invocation is a record SetCache was called
\* with for the invocation's key
WholeRecord(p) ==
    \E e \in sets : e.key = city[p] /\ resp[p].Body = json_Marshal(e.value)

\* C15: with invocations overlapping in any way, at most one SetCache is
\* between Lock and Unlock; every GetCache that finds its key returns a whole
\* record that SetCache was called with for that key; and outside a SetCache
\* every entry of the map is such a record.
C15_MutualExclusion ==
    /\ Cardinality({ p \in Procs : pc[p] = "SetCache_locked" }) <= 1
    /\ \A p \in Procs : Did(trace[p], "GetCache", "hit") => WholeRecord(p)
    /\ MuFree => \A k \in DOMAIN items :
                    [key |-> k, value |-> items[k].Object] \in sets

\* a hit that returned the record an overlapping invocation's SetCache wrote
C15_Witness ==
    \E p, q \in Procs :
        /\ p # q
        /\ Done(p)
        /\ Did(trace[p], "GetCache", "hit")
        /\ Done(q)
        /\ Did(trace[q], "SetCache", "ok")
        /\ city[q] = city[p]
        /\ resp[p].Body = json_Marshal(dbData[q])

\* C16: no call panics: FetchWeather and SaveWeatherData come back to
\* HandleRequest with a value or an error, the process stays alive, and an
\* invocation whose call failed ends with a response that has a status code.
C16_NoPanic ==
    \A p \in Procs :
        /\ pc[p] # "panic"
        /\ ~Did(trace[p], "SaveWeatherData", "panic")
        /\ (Did(trace[p], "FetchWeather", "err") \/ Did(trace[p], "SaveWeatherData", "err"))
           => (Done(p) /\ resp[p].StatusCode = 500)

\* the invocation has built dbData
HasRecord(p) ==
    \/ pc[p] \in { "SaveWeatherData", "SetCache", "SetCache_locked" }
    \/ Calls(trace[p], "SaveWeatherData") = 1

\* C17: the key is a function of the request's city, and one invocation uses
\* that one key for the cache lookup, as the location parameter sent to the
\* provider, as the City of the record it saves and as the key of its
\* SetCache; every SetCache stores under the key that the record's row has in
\* the table.
C17_SameKey ==
    /\ \A p \in Procs :
         LET k == Sanitize(build, RequestCity(p)) IN
         /\ pc[p] # "idle" => city[p] = k
         /\ sent[p] # NoExchange => sent[p].location = k
         /\ HasRecord(p) => dbData[p].City = k
         /\ Did(trace[p], "SetCache", "ok")
            => [key |-> k, value |-> dbData[p]] \in sets
    /\ \A e \in sets : e.value.City = e.key
    /\ \A k \in DOMAIN items : items[k].Object.City = k

\* the invocation missed the cache, fetched and saved
FreshSuccess(p) ==
    /\ Done(p)
    /\ Did(trace[p], "GetCache", "miss")
    /\ Did(trace[p], "FetchWeather", "ok")
    /\ Did(trace[p], "SaveWeatherData", "ok")

\* the record of the request's key and of the values the provider answered
Projected(p) ==
    [City |-> Sanitize(build, RequestCity(p)),
     Temperature |-> sent[p].Body.data.values.temperature,
     Humidity |-> sent[p].Body.data.values.humidity]

\* C18: after a miss, a successful fetch and a successful Save the response
\* is 200 and its body is the record with the request's key as City and
\* the provider's data.values.temperature and data.values.humidity; that
\* record was saved, is the row of its city, was given to SetCache under the
\* key, and is what a lookup of the key returns while the entry lives.
C18_FreshRecord ==
    \A p \in Procs :
        FreshSuccess(p)
        => /\ resp[p].StatusCode = 200
           /\ sent[p].Body.kind = "json"
           /\ resp[p].Body = json_Marshal(Projected(p))
           /\ Projected(p) \in saved
           /\ table[Projected(p).City] = Projected(p)
           /\ [key |-> city[p], value |-> Projected(p)] \in sets
           /\ now <= lastSet[city[p]].at + DefaultExpiration
              => GetCache(city[p]) = [found |-> TRUE, data |-> Projected(p)]

\* such a response for city=LA with the values 21.3 and 45, the entry alive
C18_Witness ==
    \E p \in Procs :
        /\ FreshSuccess(p)
        /\ RequestCity(p) = <<"L", "A">>
        /\ resp[p].Body = << "City", <<"L", "A">>, "Temperature", 213,
                              "Humidity", 45 >>
        /\ GetCache(city[p]).found
        /\ now > lastSet[city[p]].at

\* C19: one invocation calls FetchWeather at most once (and so sends at most
\* one request to the provider), SaveWeatherData at most once and SetCache
\* at most once, however each call ends.
C19_NoRetry ==
    \A p \in Procs :
        /\ Calls(trace[p], "FetchWeather") <= 1
        /\ httpCalls[p] <= 1
        /\ Calls(trace[p], "SaveWeatherData") <= 1
        /\ Calls(trace[p], "SetCache") <= 1

\* a transport error, answered 500 after the one request
C19_Witness ==
    \E p \in Procs :
        /\ Done(p)
        /\ resp[p].StatusCode = 500
        /\ resp[p].err = "transport"
        /\ Calls(trace[p], "FetchWeather") = 1
        /\ httpCalls[p] = 1

\* the step ends invocation p with status 500
Ends500(p) == pc[p] # "done" /\ pc'[p] = "done" /\ resp'[p].StatusCode = 500

Horizon == MaxSweeps * CleanupInterval
Instants == { n * Step : n \in 0..(Horizon \div Step) }
CacheKeys == { Sanitize(b, c) : b \in Builds, c \in CityInputs \ { << >> } }

\* the entry that SetCache stored for k at instant t is in the map
Stored(k, t) == k \in DOMAIN items /\ lastSet[k].at = t

\* C21: an entry whose expiration lies before a run of the janitor that is
\* followed is, unless a later SetCache overwrites it, removed from the map
\* in the end, with no further call of GetCache or SetCache needed; and every
\* entry in the map was Set within the last 5 + 10 minutes.
C21_Swept ==
    /\ [](\A k \in DOMAIN items :
             now - lastSet[k].at <= DefaultExpiration + CleanupInterval)
    /\ \A k \in CacheKeys : \A t \in Instants :
          (Stored(k, t) /\ t + DefaultExpiration < Horizon) ~> ~Stored(k, t)

\* after a run of the janitor: one entry removed, another as old as an
\* entry can get
C21_Witness ==
    /\ nextCleanup > CleanupInterval
    /\ \E k \in DOMAIN lastSet : k \notin DOMAIN items
    /\ \E k \in DOMAIN items :
         now - lastSet[k].at = DefaultExpiration + CleanupInterval

\* C22: an invocation that returns 500 has written at least one line with
\* log.Error, whatever failed (API key, transport, status, decoding, Save);
\* an invocation that missed the cache and met no failure has written none.
C22_ErrorsLogged ==
    \A p \in Procs :
        /\ (Done(p) /\ resp[p].StatusCode = 500) => errorLines[p] >= 1
        /\ (/\ Did(trace[p], "GetCache", "miss")
            /\ ~Did(trace[p], "FetchWeather", "err")
            /\ ~Did(trace[p], "SaveWeatherData", "err"))
           => errorLines[p] = 0

\* a 500 for a missing API key, which only the handler logs
C22_Witness ==
    \E p \in Procs :
        /\ Done(p)
        /\ resp[p].StatusCode = 500
        /\ resp[p].err = "config"
        /\ errorLines[p] = 1

\* C23: an invocation answered 400 for a missing or empty city has written
\* no line with log.Error.
C23_QuietRejection ==
    \A p \in Procs :
        (Done(p) /\ resp[p].StatusCode = 400) => errorLines[p] = 0

\* C24: the error HandleRequest returns beside its response is non-nil
\* exactly when the response's status is 500; with 200 and with 400 it is nil.
C24_ErrorIff500 ==
    \A p \in Procs :
        Done(p)
        => /\ resp[p].err # "none"
           /\ resp[p].err # "nil" <=> resp[p].StatusCode = 500
           /\ resp[p].StatusCode \in { 200, 400 } => resp[p].err = "nil"

\* PutItem's error returned beside a 500
C24_Witness ==
    \E p \in Procs :
        /\ Done(p)
        /\ resp[p].StatusCode = 500
        /\ resp[p].err = "PutItem"

\* the entries of the map are those of the last SetCache of their keys, and
\* a lookup later than 5 minutes after that SetCache misses, whatever
\* lookups came in between
ReadOnlyGet ==
    /\ \A k \in DOMAIN items :
         /\ k \in DOMAIN lastSet
         /\ items[k].Expiration = lastSet[k].at + DefaultExpiration
    /\ \A p \in Procs :
         (LookedUp(p) /\ readAt[p] > lastSet[city[p]].at + DefaultExpiration)
         => Did(trace[p], "GetCache", "miss")

\* the invocation has ended after missing a key that was Set before
MissedAfterExpiry(p) ==
    /\ Done(p)
    /\ Did(trace[p], "GetCache", "miss")
    /\ city[p] \in DOMAIN lastSet

\* C25 as stated: GetCache leaves the cache as it is, so an entry expires 5
\* minutes after its last SetCache however often it is read, and a request
\* for the key after the expiry calls FetchWeather and SaveWeatherData again.
C25_GetReadOnly ==
    /\ ReadOnlyGet
    /\ \A p \in Procs :
         MissedAfterExpiry(p)
         => /\ Calls(trace[p], "FetchWeather") = 1
            /\ Calls(trace[p], "SaveWeatherData") = 1

\* C25 amended: the same, the request after the expiry calling FetchWeather
\* again, and SaveWeatherData again when that fetch succeeds.
C25_GetReadOnlyRefetch ==
    /\ ReadOnlyGet
    /\ \A p \in Procs :
         MissedAfterExpiry(p)
         => /\ Calls(trace[p], "FetchWeather") = 1
            /\ Did(trace[p], "FetchWeather", "ok")
               <=> Calls(trace[p], "SaveWeatherData") = 1

\* an entry that was read, a hit, and then missed after its expiration by an
\* invocation that has fetched and saved again
C25_Witness ==
    \E p \in Procs :
        /\ pc[p] = "SetCache"
        /\ Did(trace[p], "GetCache", "miss")
        /\ Did(trace[p], "SaveWeatherData", "ok")
        /\ prev.key = city[p]
        /\ prev.StatusCode = 200
        /\ prev.fetches = 0
        /\ readAt[p] > lastSet[city[p]].at + DefaultExpiration

\* C26: with invocations overlapping in any way, whenever the map holds an
\* unexpired entry for a key (no SetCache being in the middle of its write),
\* the table holds a row for that key and the row is the cached record.
C26_CacheMatchesStore ==
    MuFree =>
        \A k \in DOMAIN items :
            now <= items[k].Expiration
            => /\ k \in DOMAIN table
               /\ table[k] = items[k].Object

\* the step is the cache read of invocation p
ReadsCache(p) == pc[p] = "GetCache" /\ pc'[p] # "GetCache"

\* a SetCache for k has completed and its entry's TTL has not elapsed
SetAndFresh(k) ==
    /\ k \in DOMAIN lastSet
    /\ now <= lastSet[k].at + DefaultExpiration

\* C27: with invocations overlapping in any way, a cache read for a key made
\* after a SetCache for it has completed and before that entry's TTL has
\* elapsed is a hit that ends the invocation, which calls neither
\* FetchWeather nor SaveWeatherData; a read that goes on to FetchWeather was
\* made before the first completed SetCache for the key or after the expiry.
C27_HitAfterSet ==
    /\ [](\A p \in Procs :
            Did(trace[p], "GetCache", "hit")
            => /\ Calls(trace[p], "FetchWeather") = 0
               /\ Calls(trace[p], "SaveWeatherData") = 0
               /\ httpCalls[p] = 0)
    /\ [][\A p \in Procs :
            ReadsCache(p)
            => /\ SetAndFresh(city[p])
                  => /\ pc'[p] = "done"
                     /\ resp'[p].StatusCode = 200
                     /\ resp'[p].Body = lastSet[city[p]].Body
               /\ pc'[p] = "FetchWeather" => ~SetAndFresh(city[p])
        ]_vars

\* a hit at the instant of expiration on the entry another invocation set
C27_Witness ==
    \E p, q \in Procs :
        /\ p # q
        /\ Done(p)
        /\ Did(trace[p], "GetCache", "hit")
        /\ Did(trace[q], "SetCache", "ok")
        /\ city[q] = city[p]
        /\ readAt[p] = lastSet[city[p]].at + DefaultExpiration
        /\ readAt[p] > 0

====
